---- MODULE Spec2Model ----
(***************************************************************************)
(* Model of quran_scrapper.py: the scraping loop that folds verse          *)
(* observations read from the browser into five cross-referenced           *)
(* dictionaries (explanations, verses, chapters, sections, pages), and the *)
(* finally block that dumps six JSON documents and quits the browser.      *)
(*                                                                         *)
(* One action per statement of the loop body, so that an exception raised  *)
(* by a DOM read, or a KeyboardInterrupt delivered between two statements, *)
(* leaves the dictionaries exactly as the script would leave them.         *)
(* Free text read from the page (names, commentary, glyphs) is opaque to   *)
(* the bookkeeping and is not carried in the records.                      *)
(***************************************************************************)
EXTENDS Integers, Sequences, FiniteSets, TLC

\* ------------------------------------------------------------------ bounds
\* Number of verse observations the page list yields in one run.
MaxObs == 3

\* Ids the site can show.  Chapter 0 and section 0 are the "none yet"
\* sentinels of current_chapter / current_section and are never shown.
NO_BASMALA == {1, 9}
ChapterIds == {1, 2, 9}
SectionIds == {1, 2}
VerseNumbers == {1, 2}

\* ------------------------------------------------------------- variables
VARIABLES
  pc,               \* position in the script
  page_id,          \* page_number / page_id of the page being scraped
  verse_index,      \* enumerate(..., 1) index of the last verse taken
  chapter_id,       \* locals of the verse loop body
  section_id,
  verse_number,
  current_chapter,
  current_section,
  verses, pages, chapters, sections, explanations,
  exit,             \* how the try block was left
  exitAt,           \* the position at which it was left
  written,          \* documents dumped completely, in order
  truncated,        \* documents left cut short by a failed dump
  raised,           \* exception leaving the finally block
  driver,           \* browser session
  ingested,         \* history: observations whose loop body ran to its end
  finished          \* history: pages whose verse loop ran to its end

vars == <<pc, page_id, verse_index, chapter_id, section_id, verse_number,
          current_chapter, current_section,
          verses, pages, chapters, sections, explanations,
          exit, exitAt, written, truncated, raised, driver,
          ingested, finished>>

locals == <<chapter_id, section_id, verse_number>>
pointers == <<current_chapter, current_section>>
finalization == <<exit, exitAt, written, truncated, raised, driver>>
history == <<ingested, finished>>

\* --------------------------------------------------------------- helpers
\* d[k] = v on a dict
Put(d, k, v) == [x \in DOMAIN d \cup {k} |-> IF x = k THEN v ELSE d[x]]

\* str(chapter_number) + ':' + str(verse_number)
VerseId(c, n) == ToString(c) \o ":" \o ToString(n)

verse_id == VerseId(chapter_id, verse_number)
explanation_id == verse_id

languages == [AR |-> [id |-> "AR", name |-> "Arabic"],
              EN |-> [id |-> "EN", name |-> "English"]]

\* the record literals of the loop
NewPage(p) ==
  [id |-> p, number |-> p, verses |-> <<>>, chapters |-> {}, sections |-> {}]

\* variant: the chapter back-reference taken from the current-chapter pointer
NewExplanationFromPointer(v, p, s, c) ==
  [id |-> v, language |-> "AR", verse |-> v, page |-> p, section |-> s,
   chapter |-> current_chapter]

NewExplanation(v, p, s, c) ==
  [id |-> v, language |-> "AR", verse |-> v, page |-> p, section |-> s,
   chapter |-> c]

NewVerse(v, n, p, s, c) ==
  [id |-> v, number |-> n, explanations |-> <<v>>, page |-> p, section |-> s,
   chapter |-> c]

\* variant: only the first chapter lacks the basmala
BasmalahButFirst(c) == c # 1

\* chapter_id not in NO_BASMALA
Basmalah(c) == c \notin NO_BASMALA

NewChapter(c) ==
  [id |-> c, number |-> c, basmalah |-> Basmalah(c),
   verses |-> <<>>, pages |-> <<>>, sections |-> {}]

NewSection(s) ==
  [id |-> s, verses |-> <<>>, pages |-> <<>>, chapters |-> {}]

\* ------------------------------------------------------------------ init
Init ==
  /\ pc = "tafsir"
  /\ page_id = 0
  /\ verse_index = 0
  /\ chapter_id = 0
  /\ section_id = 0
  /\ verse_number = 0
  /\ current_chapter = 0
  /\ current_section = 0
  /\ verses = <<>>
  /\ pages = <<>>
  /\ chapters = <<>>
  /\ sections = <<>>
  /\ explanations = <<>>
  /\ exit = "none"
  /\ exitAt = "none"
  /\ written = <<>>
  /\ truncated = {}
  /\ raised = "none"
  /\ driver = "open"
  /\ ingested = <<>>
  /\ finished = {}

\* positions inside the try block
LoopPcs == {"tafsir", "page_loop", "page_wait", "verse_loop"}
BodyPcs == {"explanation", "verse", "chapter_check", "chapter_create",
            "section_check", "section_create",
            "l341", "l342", "l344", "l345", "l347", "l348", "l349"}
PageEndPcs == {"l353", "l354"}
TryPcs == LoopPcs \cup BodyPcs \cup PageEndPcs

\* positions whose next statement reads the DOM and may raise
\* (NoSuchElementException, TimeoutException, ValueError from int())
ReadPcs == {"tafsir", "page_loop", "page_wait", "verse_loop",
            "explanation", "verse", "chapter_create"}

\* ---------------------------------------------------------- the try block
ClickTafsir ==
  /\ pc = "tafsir"
  /\ pc' = "page_loop"
  /\ UNCHANGED <<page_id, verse_index, locals, pointers, verses, pages,
                 chapters, sections, explanations, finalization, history>>

\* for page_element in get_page_list_elements(): ... pages[page_id] = {...}
StartPage ==
  /\ pc = "page_loop"
  /\ Len(ingested) < MaxObs
  /\ page_id' = page_id + 1
  /\ pages' = Put(pages, page_id + 1, NewPage(page_id + 1))
  /\ pc' = "page_wait"
  /\ UNCHANGED <<verse_index, locals, pointers, verses, chapters, sections,
                 explanations, finalization, history>>

\* wait.until(... PAGE_WAIT ...); enumerate(get_verse_list_elements(...), 1)
PageWait ==
  /\ pc = "page_wait"
  /\ verse_index' = 0
  /\ pc' = "verse_loop"
  /\ UNCHANGED <<page_id, locals, pointers, verses, pages, chapters,
                 sections, explanations, finalization, history>>

\* What the site shows for the verse just clicked.  The run opens the site at
\* sura=1&aya=1 (URL) and takes the page list from its start, so the first
\* verse of the first page is 1:1 in section 1; after it any chapter, section
\* and verse number may be shown, ids already seen included.
Shown(c, s, n) ==
  (page_id = 1 /\ verse_index = 0) => (c = 1 /\ s = 1 /\ n = 1)

\* lines 277-289: click the verse, read its numbers
ReadObservation ==
  /\ pc = "verse_loop"
  /\ Len(ingested) < MaxObs
  /\ \E c \in ChapterIds, s \in SectionIds, n \in VerseNumbers :
       /\ Shown(c, s, n)
       /\ chapter_id' = c
       /\ section_id' = s
       /\ verse_number' = n
  /\ verse_index' = verse_index + 1
  /\ pc' = "explanation"
  /\ UNCHANGED <<page_id, pointers, verses, pages, chapters, sections,
                 explanations, finalization, history>>

InsertExplanation ==
  /\ pc = "explanation"
  /\ explanations' = Put(explanations, explanation_id,
                         NewExplanation(verse_id, page_id, section_id, chapter_id))
  /\ pc' = "verse"
  /\ UNCHANGED <<page_id, verse_index, locals, pointers, verses, pages,
                 chapters, sections, finalization, history>>

InsertVerse ==
  /\ pc = "verse"
  /\ verses' = Put(verses, verse_id,
                   NewVerse(verse_id, verse_number, page_id, section_id, chapter_id))
  /\ pc' = "chapter_check"
  /\ UNCHANGED <<page_id, verse_index, locals, pointers, pages, chapters,
                 sections, explanations, finalization, history>>

\* if chapter_id != current_chapter: current_chapter = chapter_id
ChapterCheck ==
  /\ pc = "chapter_check"
  /\ IF chapter_id # current_chapter
       THEN /\ current_chapter' = chapter_id
            /\ pc' = "chapter_create"
       ELSE /\ current_chapter' = current_chapter
            /\ pc' = "section_check"
  /\ UNCHANGED <<page_id, verse_index, locals, current_section, verses,
                 pages, chapters, sections, explanations, finalization,
                 history>>

\* chapters[chapter_id] = {...}
ChapterCreate ==
  /\ pc = "chapter_create"
  /\ chapters' = Put(chapters, chapter_id, NewChapter(chapter_id))
  /\ pc' = "section_check"
  /\ UNCHANGED <<page_id, verse_index, locals, pointers, verses, pages,
                 sections, explanations, finalization, history>>

SectionCheck ==
  /\ pc = "section_check"
  /\ IF section_id # current_section
       THEN /\ current_section' = section_id
            /\ pc' = "section_create"
       ELSE /\ current_section' = current_section
            /\ pc' = "l341"
  /\ UNCHANGED <<page_id, verse_index, locals, current_chapter, verses,
                 pages, chapters, sections, explanations, finalization,
                 history>>

SectionCreate ==
  /\ pc = "section_create"
  /\ sections' = Put(sections, section_id, NewSection(section_id))
  /\ pc' = "l341"
  /\ UNCHANGED <<page_id, verse_index, locals, pointers, verses, pages,
                 chapters, explanations, finalization, history>>

\* chapters[chapter_id]['sections'].add(section_id)
AddChapterSection ==
  /\ pc = "l341"
  /\ chapters' = [chapters EXCEPT ![chapter_id].sections = @ \cup {section_id}]
  /\ pc' = "l342"
  /\ UNCHANGED <<page_id, verse_index, locals, pointers, verses, pages,
                 sections, explanations, finalization, history>>

\* variant: the chapter id added to the page's section set
AddPageSectionWrongId ==
  /\ pc = "l342"
  /\ pages' = [pages EXCEPT ![page_id].sections = @ \cup {chapter_id}]
  /\ pc' = "l344"
  /\ UNCHANGED <<page_id, verse_index, locals, pointers, verses, chapters,
                 sections, explanations, finalization, history>>

\* pages[page_id]['sections'].add(section_id)
AddPageSection ==
  /\ pc = "l342"
  /\ pages' = [pages EXCEPT ![page_id].sections = @ \cup {section_id}]
  /\ pc' = "l344"
  /\ UNCHANGED <<page_id, verse_index, locals, pointers, verses, chapters,
                 sections, explanations, finalization, history>>

\* sections[section_id]['chapters'].add(chapter_id)
AddSectionChapter ==
  /\ pc = "l344"
  /\ sections' = [sections EXCEPT ![section_id].chapters = @ \cup {chapter_id}]
  /\ pc' = "l345"
  /\ UNCHANGED <<page_id, verse_index, locals, pointers, verses, pages,
                 chapters, explanations, finalization, history>>

\* pages[page_id]['chapters'].add(chapter_id)
AddPageChapter ==
  /\ pc = "l345"
  /\ pages' = [pages EXCEPT ![page_id].chapters = @ \cup {chapter_id}]
  /\ pc' = "l347"
  /\ UNCHANGED <<page_id, verse_index, locals, pointers, verses, chapters,
                 sections, explanations, finalization, history>>

\* chapters[chapter_id]['verses'].append(verse_id)
AppendChapterVerse ==
  /\ pc = "l347"
  /\ chapters' = [chapters EXCEPT ![chapter_id].verses = Append(@, verse_id)]
  /\ pc' = "l348"
  /\ UNCHANGED <<page_id, verse_index, locals, pointers, verses, pages,
                 sections, explanations, finalization, history>>

\* sections[section_id]['verses'].append(verse_id)
AppendSectionVerse ==
  /\ pc = "l348"
  /\ sections' = [sections EXCEPT ![section_id].verses = Append(@, verse_id)]
  /\ pc' = "l349"
  /\ UNCHANGED <<page_id, verse_index, locals, pointers, verses, pages,
                 chapters, explanations, finalization, history>>

\* pages[page_id]['verses'].append(verse_id): the body's last statement
AppendPageVerse ==
  /\ pc = "l349"
  /\ pages' = [pages EXCEPT ![page_id].verses = Append(@, verse_id)]
  /\ ingested' = Append(ingested,
                        [page |-> page_id, chapter |-> chapter_id,
                         section |-> section_id, number |-> verse_number])
  /\ pc' = "verse_loop"
  /\ UNCHANGED <<page_id, verse_index, locals, pointers, verses, chapters,
                 sections, explanations, finalization, finished>>

\* the verse list of the page is exhausted; PAGE_WAIT saw at least one verse
EndVerses ==
  /\ pc = "verse_loop"
  /\ verse_index >= 1
  /\ finished' = finished \cup {page_id}
  /\ pc' = "l353"
  /\ UNCHANGED <<page_id, verse_index, locals, pointers, verses, pages,
                 chapters, sections, explanations, finalization, ingested>>

\* variant: the page appended to every chapter that has a verse on it
PageEndEveryChapter ==
  /\ pc = "l353"
  /\ chapters' = [c \in DOMAIN chapters |->
                   IF c \in pages[page_id].chapters
                     THEN [chapters[c] EXCEPT !.pages = Append(@, page_id)]
                     ELSE chapters[c]]
  /\ pc' = "l354"
  /\ UNCHANGED <<page_id, verse_index, locals, pointers, verses, pages,
                 sections, explanations, finalization, history>>

\* chapters[current_chapter]['pages'].append(page_id)
PageEndChapter ==
  /\ pc = "l353"
  /\ chapters' = [chapters EXCEPT ![current_chapter].pages = Append(@, page_id)]
  /\ pc' = "l354"
  /\ UNCHANGED <<page_id, verse_index, locals, pointers, verses, pages,
                 sections, explanations, finalization, history>>

\* sections[current_section]['pages'].append(page_id)
PageEndSection ==
  /\ pc = "l354"
  /\ sections' = [sections EXCEPT ![current_section].pages = Append(@, page_id)]
  /\ pc' = "page_loop"
  /\ UNCHANGED <<page_id, verse_index, locals, pointers, verses, pages,
                 chapters, explanations, finalization, history>>

\* ------------------------------------------------- leaving the try block
Leave(how) ==
  /\ exit' = how
  /\ exitAt' = pc
  /\ pc' = "dump_languages"
  /\ UNCHANGED <<page_id, verse_index, locals, pointers, verses, pages,
                 chapters, sections, explanations, written, truncated,
                 raised, driver, history>>

\* the page list is exhausted
EndPages ==
  /\ pc = "page_loop"
  /\ Leave("normal")

\* KeyboardInterrupt / SystemExit: raised between any two statements,
\* caught by the except clause
Interrupt ==
  /\ pc \in TryPcs
  /\ Leave("interrupt")

\* any other exception from a DOM read: not caught, the finally block runs
\* and the exception propagates afterwards
Fatal ==
  /\ pc \in ReadPcs
  /\ Leave("fatal")

\* --------------------------------------------------------- finally block
\* json.dump with the default encoder: dict, list, str, int and bool are
\* encoded; any other type raises TypeError after the text before it has
\* been written to the file.
JsonEncodable(kind) == kind \in {"dict", "list", "str", "int", "bool"}

LanguageFields == [id |-> "str", name |-> "str"]
VerseFields == [id |-> "str", number |-> "int", arabic_unicodes |-> "list",
                explanations |-> "list", page |-> "int", section |-> "int",
                chapter |-> "int"]
PageFields == [id |-> "int", number |-> "int", verses |-> "list",
               chapters |-> "set", sections |-> "set"]
ChapterFields == [id |-> "int", number |-> "int", name |-> "str",
                  aranic_unicode |-> "str", basmalah |-> "bool",
                  verses |-> "list", pages |-> "list", sections |-> "set"]
SectionFields == [id |-> "int", verses |-> "list", pages |-> "list",
                  chapters |-> "set"]
ExplanationFields == [id |-> "str", text |-> "str", name |-> "str",
                      language |-> "str", verse |-> "str", page |-> "int",
                      section |-> "int", chapter |-> "int"]

\* The types of the fields of each collection's records, as the record
\* literals build them (the text fields included).
\* The dump succeeds when every field of every record can be encoded.
Dumps(collection, fields) ==
  \A k \in DOMAIN collection :
     \A f \in DOMAIN fields : JsonEncodable(fields[f])

JsonDump(doc, collection, fields, next) ==
  /\ IF Dumps(collection, fields)
       THEN /\ written' = Append(written, doc)
            /\ pc' = next
            /\ UNCHANGED <<truncated, raised>>
       ELSE /\ truncated' = truncated \cup {doc}
            /\ raised' = "TypeError"
            /\ pc' = "terminated"
            /\ UNCHANGED written
  /\ UNCHANGED <<page_id, verse_index, locals, pointers, verses, pages,
                 chapters, sections, explanations, exit, exitAt, driver,
                 history>>

DumpLanguages ==
  /\ pc = "dump_languages"
  /\ JsonDump("languages", languages, LanguageFields, "dump_verses")
DumpVerses ==
  /\ pc = "dump_verses"
  /\ JsonDump("verses", verses, VerseFields, "dump_pages")
DumpPages ==
  /\ pc = "dump_pages"
  /\ JsonDump("pages", pages, PageFields, "dump_chapters")
DumpChapters ==
  /\ pc = "dump_chapters"
  /\ JsonDump("chapters", chapters, ChapterFields, "dump_sections")
DumpSections ==
  /\ pc = "dump_sections"
  /\ JsonDump("sections", sections, SectionFields, "dump_explanations")
DumpExplanations ==
  /\ pc = "dump_explanations"
  /\ JsonDump("explanations", explanations, ExplanationFields, "quit")

\* driver.quit(), then a pending exception propagates
DriverQuit ==
  /\ pc = "quit"
  /\ driver' = "quit"
  /\ raised' = IF exit = "fatal" THEN "WebDriverException" ELSE "none"
  /\ pc' = "terminated"
  /\ UNCHANGED <<page_id, verse_index, locals, pointers, verses, pages,
                 chapters, sections, explanations, exit, exitAt, written,
                 truncated, history>>

Next ==
  \/ ClickTafsir
  \/ StartPage
  \/ PageWait
  \/ ReadObservation
  \/ InsertExplanation
  \/ InsertVerse
  \/ ChapterCheck
  \/ ChapterCreate
  \/ SectionCheck
  \/ SectionCreate
  \/ AddChapterSection
  \/ AddPageSection
  \/ AddSectionChapter
  \/ AddPageChapter
  \/ AppendChapterVerse
  \/ AppendSectionVerse
  \/ AppendPageVerse
  \/ EndVerses
  \/ PageEndChapter
  \/ PageEndSection
  \/ EndPages
  \/ Interrupt
  \/ Fatal
  \/ DumpLanguages
  \/ DumpVerses
  \/ DumpPages
  \/ DumpChapters
  \/ DumpSections
  \/ DumpExplanations
  \/ DriverQuit

Spec == Init /\ [][Next]_vars

\* ========================================================== properties
AllDocs == <<"languages", "verses", "pages", "chapters", "sections",
             "explanations">>

Range(s) == {s[i] : i \in 1..Len(s)}
Count(s, x) == Cardinality({i \in 1..Len(s) : s[i] = x})
IsPrefix(s, t) == Len(s) <= Len(t) /\ \A i \in 1..Len(s) : s[i] = t[i]
Last(s) == s[Len(s)]

\* the position of the script in the try block, now or when it was left
Where == IF pc \in TryPcs THEN pc ELSE exitAt
\* the loop body has applied some but not all of the current observation
MidObservation == Where \in BodyPcs \ {"explanation"}
\* the state has been handed to the finally block
HandedOver == pc \notin TryPcs

ObsId(o) == VerseId(o.chapter, o.number)
IngestedIds == {ObsId(ingested[i]) : i \in 1..Len(ingested)}
\* no verse id was observed twice
DistinctIds == Cardinality(IngestedIds) = Len(ingested)
\* the verse ids of a sequence of observations, in order
IdsOf(obs) == [i \in 1..Len(obs) |-> ObsId(obs[i])]
\* the last observation of verse id v
LastOf(v) ==
  LET i == CHOOSE k \in 1..Len(ingested) :
             /\ ObsId(ingested[k]) = v
             /\ \A j \in (k+1)..Len(ingested) : ObsId(ingested[j]) # v
  IN ingested[i]

\* ---------------------------------------------------------------- C1
\* C1: in the state handed to the finally block, every verse record's page,
\* section and chapter ids resolve to a record whose 'verses' list holds the
\* verse id exactly once.  Stated for hand-overs at an observation boundary
\* of runs in which every verse id was observed once.
C1_VerseRefsResolve ==
  (HandedOver /\ ~MidObservation /\ DistinctIds) =>
    \A v \in DOMAIN verses :
      /\ verses[v].page \in DOMAIN pages
      /\ Count(pages[verses[v].page].verses, v) = 1
      /\ verses[v].section \in DOMAIN sections
      /\ Count(sections[verses[v].section].verses, v) = 1
      /\ verses[v].chapter \in DOMAIN chapters
      /\ Count(chapters[verses[v].chapter].verses, v) = 1

\* ---------------------------------------------------------------- C2
\* C2: however the run ends, the finally block writes all six documents
\* completely and raises no error of its own.
C2_SixDocumentsWritten ==
  pc = "terminated" =>
    /\ written = AllDocs
    /\ truncated = {}
    /\ raised # "TypeError"

\* ---------------------------------------------------------------- C3
\* the first page has just been finished and held verses of one chapter
\* followed by verses of another, all in one section
C3_Split(k) ==
  /\ k \in 1..(Len(ingested) - 1)
  /\ \A i \in 1..k : ingested[i].chapter = ingested[1].chapter
  /\ \A i \in (k+1)..Len(ingested) : ingested[i].chapter = Last(ingested).chapter
  /\ ingested[1].chapter # Last(ingested).chapter
  /\ \A i \in 1..Len(ingested) : ingested[i].section = ingested[1].section

\* C3: after a page holding verses of chapter A then of chapter B, all in
\* section S, chapters has keys {A, B}; each of A and B lists its verses in
\* order and has pages = [page]; the page lists all verses, chapters {A, B},
\* sections {S}; section S has chapters {A, B} and pages = [page].
C3_TwoChapterPage ==
  \A k \in 1..MaxObs :
    (pc = "page_loop" /\ page_id = 1 /\ finished = {1} /\ C3_Split(k)) =>
      LET A == ingested[1].chapter
          B == Last(ingested).chapter
          S == ingested[1].section
          InA(o) == o.chapter = A
          InB(o) == o.chapter = B
          Every(o) == TRUE
      IN /\ DOMAIN chapters = {A, B}
         /\ chapters[A].verses = IdsOf(SelectSeq(ingested, InA))
         /\ chapters[A].pages = <<1>>
         /\ chapters[B].verses = IdsOf(SelectSeq(ingested, InB))
         /\ chapters[B].pages = <<1>>
         /\ pages[1].verses = IdsOf(SelectSeq(ingested, Every))
         /\ pages[1].chapters = {A, B}
         /\ pages[1].sections = {S}
         /\ sections[S].chapters = {A, B}
         /\ sections[S].pages = <<1>>

\* what the script does in that case: everything C3 lists except that the
\* first chapter's 'pages' list stays empty
C3_AsScripted ==
  \A k \in 1..MaxObs :
    (pc = "page_loop" /\ page_id = 1 /\ finished = {1} /\ C3_Split(k)) =>
      LET A == ingested[1].chapter
          B == Last(ingested).chapter
          S == ingested[1].section
          InA(o) == o.chapter = A
          InB(o) == o.chapter = B
          Every(o) == TRUE
      IN /\ DOMAIN chapters = {A, B}
         /\ chapters[A].verses = IdsOf(SelectSeq(ingested, InA))
         /\ chapters[A].pages = <<>>
         /\ chapters[B].verses = IdsOf(SelectSeq(ingested, InB))
         /\ chapters[B].pages = <<1>>
         /\ pages[1].verses = IdsOf(SelectSeq(ingested, Every))
         /\ pages[1].chapters = {A, B}
         /\ pages[1].sections = {S}
         /\ sections[S].chapters = {A, B}
         /\ sections[S].pages = <<1>>

\* ---------------------------------------------------------------- C4
\* C4: a cancellation takes effect only at an observation boundary: the
\* records handed over reflect exactly the observations ingested in full.
C4_CancelAtBoundary ==
  exit = "interrupt" =>
    /\ ~MidObservation
    /\ DOMAIN explanations = IngestedIds
    /\ DOMAIN verses = IngestedIds
    /\ \A p \in DOMAIN pages :
         LET OnP(o) == o.page = p
         IN pages[p].verses = IdsOf(SelectSeq(ingested, OnP))

\* ---------------------------------------------------------------- C5
\* C5: chapter and section records are created once and afterwards only
\* added to: every step keeps each record, its 'verses' and 'pages' lists as
\* prefixes of the new ones and its related-id set inside the new one.
C5_RecordsOnlyGrow ==
  [][ /\ \A c \in DOMAIN chapters :
           /\ c \in DOMAIN chapters'
           /\ IsPrefix(chapters[c].verses, chapters'[c].verses)
           /\ IsPrefix(chapters[c].pages, chapters'[c].pages)
           /\ chapters[c].sections \subseteq chapters'[c].sections
      /\ \A s \in DOMAIN sections :
           /\ s \in DOMAIN sections'
           /\ IsPrefix(sections[s].verses, sections'[s].verses)
           /\ IsPrefix(sections[s].pages, sections'[s].pages)
           /\ sections[s].chapters \subseteq sections'[s].chapters ]_vars

\* ---------------------------------------------------------------- C6
PagesOf(d, k) == IF k \in DOMAIN d THEN Range(d[k].pages) ELSE {}

\* every page id in a 'pages' list is a page whose verse loop completed, is
\* there once, and is in one chapter's and one section's list at most
C6_ListedPagesFinished ==
  /\ \A c \in DOMAIN chapters : \A p \in Range(chapters[c].pages) :
       /\ p \in finished
       /\ Count(chapters[c].pages, p) = 1
       /\ \A d \in DOMAIN chapters : p \in Range(chapters[d].pages) => d = c
  /\ \A s \in DOMAIN sections : \A p \in Range(sections[s].pages) :
       /\ p \in finished
       /\ Count(sections[s].pages, p) = 1
       /\ \A d \in DOMAIN sections : p \in Range(sections[d].pages) => d = s
  /\ (pc = "page_loop" /\ page_id >= 1) =>
       /\ Last(ingested).page = page_id
       /\ Count(chapters[Last(ingested).chapter].pages, page_id) = 1
       /\ Count(sections[Last(ingested).section].pages, page_id) = 1

\* the page-end statements append the page to the last verse's chapter and
\* section and to no other record; no other statement adds to a 'pages' list
C6_PageEndStep ==
  /\ (pc = "l353" /\ pc' = "l354") =>
       /\ chapters'[Last(ingested).chapter].pages
            = Append(chapters[Last(ingested).chapter].pages, page_id)
       /\ \A c \in DOMAIN chapters' \ {Last(ingested).chapter} :
            c \in DOMAIN chapters /\ chapters'[c].pages = chapters[c].pages
       /\ \A s \in DOMAIN sections' :
            s \in DOMAIN sections /\ sections'[s].pages = sections[s].pages
  /\ (pc = "l354" /\ pc' = "page_loop") =>
       /\ sections'[Last(ingested).section].pages
            = Append(sections[Last(ingested).section].pages, page_id)
       /\ \A s \in DOMAIN sections' \ {Last(ingested).section} :
            s \in DOMAIN sections /\ sections'[s].pages = sections[s].pages
       /\ \A c \in DOMAIN chapters' :
            c \in DOMAIN chapters /\ chapters'[c].pages = chapters[c].pages
  /\ ~(pc \in PageEndPcs /\ pc' \in {"l354", "page_loop"}) =>
       /\ \A c \in DOMAIN chapters' :
            Range(chapters'[c].pages) \subseteq PagesOf(chapters, c)
       /\ \A s \in DOMAIN sections' :
            Range(sections'[s].pages) \subseteq PagesOf(sections, s)

\* C6: a page whose verse loop completes is appended exactly once to the
\* 'pages' list of the chapter and of the section of the last verse observed
\* on it and to no other; a page whose loop did not complete is in no list.
C6_PageAttributedToLastVerse ==
  []C6_ListedPagesFinished /\ [][C6_PageEndStep]_vars

\* a page holding two chapters and two sections has been finished
C6_Witness ==
  /\ pc = "page_loop"
  /\ page_id = 1
  /\ Cardinality(pages[1].chapters) = 2
  /\ Cardinality(pages[1].sections) = 2
  /\ chapters[current_chapter].pages = <<1>>
  /\ sections[current_section].pages = <<1>>

\* ---------------------------------------------------------------- C7
ListedChapters(p) == {verses[v].chapter : v \in Range(pages[p].verses)}
ListedSections(p) == {verses[v].section : v \in Range(pages[p].verses)}
ObservedSections(p) ==
  {ingested[i].section : i \in {j \in 1..Len(ingested) : ingested[j].page = p}}

\* C7 as stated: between observations, each page's 'chapters' and 'sections'
\* sets are exactly the chapter and section ids of the verse records named in
\* its 'verses' list.
C7_PageSetsMatchVerseRecords ==
  ~MidObservation =>
    \A p \in DOMAIN pages :
      /\ pages[p].chapters = ListedChapters(p)
      /\ pages[p].sections = ListedSections(p)

\* C7 amended: the 'chapters' set is exactly the chapter ids of the listed
\* verse records; the 'sections' set is exactly the section ids observed on
\* the page, which are those of the listed verse records when no verse id was
\* observed twice.
C7_PageSetsMatchObservations ==
  ~MidObservation =>
    \A p \in DOMAIN pages :
      /\ pages[p].chapters = ListedChapters(p)
      /\ pages[p].sections = ObservedSections(p)
      /\ DistinctIds => pages[p].sections = ListedSections(p)

\* a page with verses of two chapters and two sections, all ids distinct
C7_Witness ==
  /\ pc = "verse_loop"
  /\ DistinctIds
  /\ Len(pages[1].verses) = 3
  /\ Cardinality(pages[1].chapters) = 2
  /\ Cardinality(pages[1].sections) = 2

\* ---------------------------------------------------------------- C8
ExplanationOf(o) ==
  [id |-> ObsId(o), language |-> "AR", verse |-> ObsId(o), page |-> o.page,
   section |-> o.section, chapter |-> o.chapter]

\* C8 as stated: N fully ingested observations leave exactly N explanation
\* records, each tagged 'AR' and pointing back at its observation.
C8_OneExplanationPerObservation ==
  ~MidObservation =>
    /\ Cardinality(DOMAIN explanations) = Len(ingested)
    /\ \A i \in 1..Len(ingested) :
         /\ ObsId(ingested[i]) \in DOMAIN explanations
         /\ explanations[ObsId(ingested[i])] = ExplanationOf(ingested[i])

\* C8 amended: there is exactly one explanation record per distinct verse id
\* observed (N records when the N ids are distinct), each tagged 'AR' and
\* pointing back at the last observation of its id.
C8_OneExplanationPerVerseId ==
  ~MidObservation =>
    /\ DOMAIN explanations = IngestedIds
    /\ \A v \in DOMAIN explanations :
         /\ explanations[v].language = "AR"
         /\ explanations[v] = ExplanationOf(LastOf(v))
    /\ DistinctIds => Cardinality(DOMAIN explanations) = Len(ingested)

\* three observations of distinct ids over two chapters, fully ingested
C8_Witness ==
  /\ pc = "verse_loop"
  /\ Len(ingested) = 3
  /\ DistinctIds
  /\ Cardinality(DOMAIN explanations) = 3
  /\ Cardinality({ingested[i].chapter : i \in 1..3}) >= 2

\* ---------------------------------------------------------------- C9
\* C9: every chapter record has its basmala flag false exactly when its
\* chapter id is 1 or 9.
C9_BasmalaFlag ==
  \A c \in DOMAIN chapters :
    /\ chapters[c].id = c
    /\ (chapters[c].basmalah = FALSE) <=> (c \in {1, 9})

\* records for chapters 1, 9 and another chapter exist
C9_Witness ==
  /\ {1, 9} \subseteq DOMAIN chapters
  /\ \E c \in DOMAIN chapters : c \notin {1, 9} /\ chapters[c].basmalah

\* ---------------------------------------------------------------- C10
\* C10: on every exit path the run ends with the browser session released,
\* and the session is released only after the six documents were written in
\* the order languages, verses, pages, chapters, sections, explanations.
C10_QuitAfterSixWrites ==
  /\ pc = "terminated" => driver = "quit"
  /\ driver = "quit" => written = AllDocs

====
